---------------------------- MODULE Spec2Model ----------------------------
(***************************************************************************)
(* A model of the MARC Record Tool (jspann21/MARC_Record_Tool).            *)
(*                                                                         *)
(* The search tab (src/search_tab.py) is modelled as a state machine with  *)
(* one foreground thread (the Qt event loop running SearchTab's handlers), *)
(* the SearchWorker threads it starts, and the queue of signal             *)
(* notifications posted by the workers to the foreground.  The response    *)
(* classifier is modelled as operators over an abstraction of the fetched  *)
(* page: the page is the record of the signals the classifier looks for.   *)
(*                                                                         *)
(* Conventions.  Rows and list indexes are 1-based here and 0-based in the *)
(* code: row r of the model is row r-1 of the code, and 0 stands for       *)
(* Python's None in SearchWorker.index.  The index -1 is Python's -1, what *)
(* QTableWidget.currentRow() gives when no row is current: it addresses    *)
(* the last element of a list and no item of the table.  Text is a         *)
(* sequence of one character strings; a URL template is a sequence of      *)
(* tokens, a token being a placeholder ("{isbn}", ...) or a piece of       *)
(* literal text.                                                           *)
(***************************************************************************)
EXTENDS Integers, Sequences, FiniteSets, TLC

VARIABLES
    libraries,      \* SearchTab.libraries: the list object shared with every worker
    saved,          \* the content of libraries.json
    table,          \* library_table column 0: the status text of each row
    consoleWriter,  \* the thread that made the latest append to console_output
    buttons,        \* enabled state of the five buttons
    fg,             \* the foreground thread: idle, or blocked in QThread.wait()
    workers,        \* every SearchWorker created so far, in creation order
    cur,            \* SearchTab.search_worker: index into workers, 0 for None
    queue,          \* signal notifications posted to the foreground, not yet delivered
    nextId,         \* identity of the next library dict to be created
    cancelInfo,     \* history: what the table showed when Cancel was last clicked
    ops,            \* history: the number of user actions handled so far
    call,           \* a pure function under check: its name and arguments
    result,         \* and its result
    marc_record,    \* ScrapeTab.marc_record: None, or the fields added so far
    default_filename, \* ScrapeTab.default_filename
    scrape          \* history: the latest operation of the scrape tab

searchVars == <<libraries, saved, table, consoleWriter, buttons, fg, workers,
                cur, queue, nextId, cancelInfo, ops>>
scrapeVars == <<marc_record, default_filename, scrape>>
\* what the search tab never touches
pureVars == <<call, result, scrapeVars>>
vars == <<libraries, saved, table, consoleWriter, buttons, fg, workers,
          cur, queue, nextId, cancelInfo, ops, call, result,
          marc_record, default_filename, scrape>>

(***************************************************************************)
(* Bounds of the model.                                                    *)
(***************************************************************************)
MaxLibs == 2        \* rows the library list may hold
MaxTasks == 2       \* SearchWorkers created in one run
MaxAdds == 1        \* libraries added in one run
MaxOps == 3         \* user actions (clicks, menu choices) in one run
MaxMarkers == 1     \* structural found markers present on one page
MaxFields == 2      \* candidate fields (containers, rows, lines) of one document

(***************************************************************************)
(* Text helpers.                                                           *)
(***************************************************************************)
RECURSIVE LStrip(_)
LStrip(s) == IF s # <<>> /\ Head(s) = " " THEN LStrip(Tail(s)) ELSE s

RECURSIVE RStrip(_)
RStrip(s) ==
    IF s # <<>> /\ s[Len(s)] = " " THEN RStrip(SubSeq(s, 1, Len(s) - 1)) ELSE s

\* str.strip()
Strip(s) == RStrip(LStrip(s))

\* urllib.parse.quote on one character: a space is percent-encoded
QuoteChar(c) == IF c = " " THEN "%20" ELSE c

\* urllib.parse.quote
Quote(s) == [k \in 1..Len(s) |-> QuoteChar(s[k])]

RECURSIVE Flatten(_)
Flatten(ss) == IF ss = <<>> THEN <<>> ELSE Head(ss) \o Flatten(Tail(ss))

Range(s) == {s[k] : k \in 1..Len(s)}

(***************************************************************************)
(* The response classifier: the check methods of SearchWorker.            *)
(*                                                                         *)
(* A response is [ok, history, url, page, body]: ok is FALSE when          *)
(* requests.get or raise_for_status raised a RequestException; history is  *)
(* the number of redirects followed; url is the final URL; page holds what *)
(* BeautifulSoup finds in the markup and body what the regular expressions *)
(* find in the raw text.                                                   *)
(***************************************************************************)
\* the h1 heading, as the two h1 searches see it
H1Kinds == {"none", "other", "no results", "no results available"}

\* <meta name="totalResults"> and div.search-stats: the element absent, its
\* attribute (content, data-record-total) absent, or the attribute's text
CountKinds == {"absent", "noattr", "", "abc", "0", "3"}

\* int(text): the texts that int() converts, with their values
IntTexts == {"0", "3"}
IntValue(text) == IF text = "3" THEN 3 ELSE 0

\* int(text) > 0 inside try/except ValueError: False when int() raises
PositiveInt(text) == IF text \in IntTexts THEN IntValue(text) > 0 ELSE FALSE

\* elements whose mere presence is a found signal (check_found_conditions)
StructuralMarkers ==
    {"tr.browseEntry", "span.record-count", "div.document",
     "div.bibDisplayContentMain", "div.bibDisplayItemsMain",
     "div.bibliographicData", "text Results: N", "#numresults",
     "div.browseSearchtoolMessage", "span N results found"}

\* texts a response body may hold, one for each regular expression of
\* check_general_results
BodyTexts ==
    {"your search returned 3 results", "Results: 3", "3 results found",
     "1-3 of 3"}

\* re.search(pattern, response.text.lower()) for one of the four patterns; the
\* second pattern is written with a capital R and matches no lowered text
MatchesGeneralPattern(text) ==
    text \in {"your search returned 3 results", "3 results found", "1-3 of 3"}

check_not_found_conditions(page) ==
    \/ page.phrase                                   \* a not-found phrase in the text
    \/ page.h1 \in {"no results", "no results available"}  \* h1 ~ "no results"
    \/ page.h1 = "no results available"              \* h1 ~ "no results available"
    \/ page.noresultsDiv                             \* div#documents.noresults
    \/ page.placeholderRow                           \* tr.yourEntryWouldBeHere

check_meta_total_results(page) ==
    IF page.meta = "absent" THEN FALSE
    ELSE IF page.meta = "noattr" THEN PositiveInt("0")
    ELSE PositiveInt(page.meta)

check_search_stats(page) ==
    IF page.stats \in {"absent", "noattr", ""} THEN FALSE
    ELSE PositiveInt(page.stats)

\* found conditions that take no account of a redirect
check_found_conditions_no_redirect(page, response) ==
    \/ page.markers # {}
    \/ check_meta_total_results(page)
    \/ check_search_stats(page)

check_found_conditions(page, response) ==
    IF response.history > 0 THEN TRUE
    ELSE \/ page.markers # {}
         \/ check_meta_total_results(page)
         \/ check_search_stats(page)

check_general_results(response) ==
    \E text \in response.body : MatchesGeneralPattern(text)

\* a classifier that looks for the found signals first
classify_found_first(url, response) ==
    IF check_found_conditions(response.page, response)
          \/ check_general_results(response)
    THEN [status |-> "Found", url |-> response.url]
    ELSE [status |-> "Not Found", url |-> url]

\* SearchWorker.run, lines 607-616: the status and URL emitted for a response
\* that raised nothing
classify(url, response) ==
    IF check_not_found_conditions(response.page)
    THEN [status |-> "Not Found", url |-> url]
    ELSE IF check_found_conditions(response.page, response)
            \/ check_general_results(response)
         THEN [status |-> "Found", url |-> response.url]
         ELSE [status |-> "Not Found", url |-> url]

\* the sets the responses are drawn from
SmallSubsets(S) == {T \in SUBSET S : Cardinality(T) <= MaxMarkers}

Pages ==
    [phrase : BOOLEAN, h1 : H1Kinds, noresultsDiv : BOOLEAN,
     placeholderRow : BOOLEAN, markers : SmallSubsets(StructuralMarkers),
     meta : CountKinds, stats : CountKinds]

\* the URL a redirect ends at
DetailUrl == <<"http://a/record/1">>

\* a response to a GET of url that raised nothing, after h redirects: without
\* a redirect the final URL is the requested one
Response(url, h, page, body) ==
    [ok |-> TRUE, history |-> h, url |-> IF h > 0 THEN DetailUrl ELSE url,
     page |-> page, body |-> body]

BlankPage ==
    [phrase |-> FALSE, h1 |-> "none", noresultsDiv |-> FALSE,
     placeholderRow |-> FALSE, markers |-> {}, meta |-> "absent",
     stats |-> "absent"]

\* a response that raised a RequestException (timeout, connection error,
\* raise_for_status on a 4xx or 5xx)
FailedResponse(url) ==
    [ok |-> FALSE, history |-> 0, url |-> url, page |-> BlankPage, body |-> {}]

(***************************************************************************)
(* URL templates and SearchWorker.construct_url.                           *)
(***************************************************************************)
Placeholders == {"{isbn}", "{title}", "{author}", "{x}"}

IsbnOk == <<"http://a/?q=", "{isbn}">>
IsbnStray == <<"http://a/?q=", "{isbn}", "{x}">>      \* a brace pair that names no argument
IsbnWithTitle == <<"http://a/?q=", "{isbn}", "{title}">>
TaOk == <<"http://a/?t=", "{title}", "&a=", "{author}">>
TaNoAuthor == <<"http://a/?t=", "{title}">>
NoTemplate == <<>>                                     \* the empty string

\* what the user may type into the dialogs of add_library and edit_library
IsbnTemplates == {IsbnOk, IsbnStray, IsbnWithTitle}
TaTemplates == {TaOk, TaNoAuthor}

\* what the user may type into the ISBN, title and author fields
TextInputs == {<<" ">>, <<"9", " ">>}

\* what the user may type as a library name
Names == {<<"A">>, <<" ">>}

\* "{isbn}" in url: substring containment, here of a token
Contains(template, token) == token \in Range(template)

\* str.format(**kw) raises KeyError for a replacement field kw does not name
FormatRaises(template, kw) ==
    \E k \in 1..Len(template) :
        template[k] \in Placeholders /\ template[k] \notin DOMAIN kw

\* str.format(**kw): every replacement field replaced by its argument
Format(template, kw) ==
    Flatten([k \in 1..Len(template) |->
                IF template[k] \in DOMAIN kw THEN kw[template[k]]
                ELSE <<template[k]>>])

\* dict.get(key, ""): a library of the list file may lack a template
NoUrl == <<>>

\* SearchWorker.construct_url: "raise" (an exception leaves run), "none"
\* (returns None) or "url"
construct_url(w, library) ==
    IF w.search_type = "isbn"
    THEN LET isbn == Strip(w.search_value.isbn) IN
         IF isbn = <<>> THEN [kind |-> "none", url |-> NoUrl]
         ELSE IF FormatRaises(library.isbn_url, [x \in {"{isbn}"} |-> <<>>])
         THEN [kind |-> "raise", url |-> NoUrl]
         ELSE [kind |-> "url",
               url |-> Format(library.isbn_url,
                              [x \in {"{isbn}"} |-> Quote(isbn)])]
    ELSE LET title == Strip(w.search_value.title)
             author == Strip(w.search_value.author) IN
         IF title = <<>> \/ author = <<>> THEN [kind |-> "none", url |-> NoUrl]
         ELSE IF FormatRaises(library.title_author_url,
                              [x \in {"{title}", "{author}"} |-> <<>>])
         THEN [kind |-> "raise", url |-> NoUrl]
         ELSE [kind |-> "url",
               url |-> Format(library.title_author_url,
                              [x \in {"{title}", "{author}"} |->
                                  IF x = "{title}" THEN Quote(title)
                                  ELSE Quote(author)])]

(***************************************************************************)
(* The state of the search tab.                                            *)
(***************************************************************************)
Terminal == {"Found", "Not Found", "Error"}

NoRow == [status |-> ""]                             \* QTableWidgetItem("")

\* json.dump(self.libraries): the identity of a dict is not part of the file
Persist(libs) ==
    [k \in 1..Len(libs) |->
        [name |-> libs[k].name, isbn_url |-> libs[k].isbn_url,
         title_author_url |-> libs[k].title_author_url]]

\* SearchTab.populate_library_table: every row gets a fresh, empty status item
populate_library_table(libs) == [k \in 1..Len(libs) |-> NoRow]

disable_all_buttons_except_cancel ==
    [isbn |-> FALSE, title_author |-> FALSE, clear |-> FALSE, add |-> FALSE,
     cancel |-> TRUE]

reset_buttons ==
    [isbn |-> TRUE, title_author |-> TRUE, clear |-> TRUE, add |-> TRUE,
     cancel |-> FALSE]

\* SearchTab.clear_statuses on the table
clear_statuses(t) == [r \in 1..Len(t) |-> [t[r] EXCEPT !.status = ""]]

Idle == [pc |-> "idle", search_type |-> "", search_value |-> <<>>, row |-> 0]

NoCancel == [valid |-> FALSE, running |-> FALSE, snap |-> <<>>, notStarted |-> {}]

NoLib == [id |-> 0, name |-> <<>>, isbn_url |-> NoUrl, title_author_url |-> NoUrl]

NoEmit == [row |-> 0, status |-> ""]

\* SearchWorker.__init__.  The worker keeps the list object it is given, not a
\* copy: it reads the variable libraries.  last, stopRequested and snapshot are
\* history: the row and status of the latest status update the worker emitted,
\* whether stop() was called, and the content of the list when the task started.
SearchWorker(index, search_type, search_value) ==
    [pc |-> "start", is_running |-> TRUE, index |-> index,
     search_type |-> search_type, search_value |-> search_value,
     pos |-> 1, i |-> 0, lib |-> NoLib, url |-> NoUrl,
     last |-> NoEmit, stopRequested |-> FALSE, snapshot |-> libraries]

\* run has returned or raised: its local variables (the iterator, i, library,
\* url) are gone
Finished(w, pc) ==
    [w EXCEPT !.pc = pc, !.pos = 1, !.i = 0, !.lib = NoLib, !.url = NoUrl,
              !.snapshot = <<>>]

\* QThread.isRunning
isRunning(w) == workers[w].pc \notin {"done", "crashed"}

\* SearchWorker.stop, up to its wait()
stop(ws, w) ==
    [ws EXCEPT ![w].is_running = FALSE, ![w].stopRequested = TRUE]

update_status(w, row, status, url) ==
    [w |-> w, kind |-> "update_status", row |-> row, status |-> status,
     url |-> url, lib |-> workers[w].lib.id]

search_complete(w) ==
    [w |-> w, kind |-> "search_complete", row |-> 0, status |-> "",
     url |-> NoUrl, lib |-> 0]

(***************************************************************************)
(* Foreground handlers (SearchTab).  A handler runs when the event loop is *)
(* idle; one that calls QThread.wait() on a running worker blocks, and its *)
(* remainder runs once that worker has finished.                           *)
(***************************************************************************)
CanStartTask == Len(workers) < MaxTasks

\* a user action is handled when the event loop is idle
UserAction ==
    /\ fg.pc = "idle"
    /\ ops < MaxOps
    /\ ops' = ops + 1

\* SearchTab.start_isbn_search: the click on "ISBN search"
start_isbn_search(text) ==
    /\ UserAction /\ buttons.isbn /\ CanStartTask
    /\ LET isbn == Strip(text) IN
       IF libraries = <<>>
       THEN UNCHANGED <<table, consoleWriter, buttons, workers, cur, cancelInfo>>
       ELSE IF isbn = <<>>
       THEN /\ consoleWriter' = "fg"
            /\ UNCHANGED <<table, buttons, workers, cur, cancelInfo>>
       ELSE /\ table' = clear_statuses(table)
            /\ consoleWriter' = "fg"
            /\ buttons' = disable_all_buttons_except_cancel
            /\ workers' = Append(workers,
                                 SearchWorker(0, "isbn", [isbn |-> isbn]))
            /\ cur' = Len(workers) + 1
            /\ cancelInfo' = NoCancel
    /\ UNCHANGED <<libraries, saved, fg, queue, nextId, pureVars>>

\* SearchTab.start_title_author_search: the click on "Title & Author search"
start_title_author_search(titleText, authorText) ==
    /\ UserAction /\ buttons.title_author /\ CanStartTask
    /\ LET title == Strip(titleText)
           author == Strip(authorText) IN
       IF libraries = <<>>
       THEN UNCHANGED <<table, consoleWriter, buttons, workers, cur, cancelInfo>>
       ELSE IF title = <<>> \/ author = <<>>
       THEN /\ consoleWriter' = "fg"
            /\ UNCHANGED <<table, buttons, workers, cur, cancelInfo>>
       ELSE /\ table' = clear_statuses(table)
            /\ consoleWriter' = "fg"
            /\ buttons' = disable_all_buttons_except_cancel
            /\ workers' = Append(workers,
                                 SearchWorker(0, "title_author",
                                              [title |-> title, author |-> author]))
            /\ cur' = Len(workers) + 1
            /\ cancelInfo' = NoCancel
    /\ UNCHANGED <<libraries, saved, fg, queue, nextId, pureVars>>

\* all(search_value) / search_value.strip(): the emptiness tests of start_search
ValueEmpty(search_type, search_value) ==
    IF search_type = "isbn" THEN Strip(search_value.isbn) = <<>>
    ELSE search_value.title = <<>> \/ search_value.author = <<>>

\* a start_search that wipes every row's status, whatever row it is given
start_search_body_clear_all(ws, search_type, search_value, row) ==
    IF ValueEmpty(search_type, search_value)
    THEN /\ consoleWriter' = "fg"
         /\ workers' = ws
         /\ UNCHANGED <<table, cur>>
    ELSE /\ workers' = Append(ws, SearchWorker(row, search_type, search_value))
         /\ cur' = Len(ws) + 1
         /\ table' = clear_statuses(table)
         /\ consoleWriter' = IF row = 0 THEN "fg" ELSE consoleWriter

\* SearchTab.start_search, lines 276-305: what follows the stop and wait.
\* For row -1 item(-1, 0) is None and line 294 raises, the worker started
start_search_body(ws, search_type, search_value, row) ==
    IF ValueEmpty(search_type, search_value)
    THEN /\ consoleWriter' = "fg"
         /\ workers' = ws
         /\ UNCHANGED <<table, cur>>
    ELSE /\ workers' = Append(ws, SearchWorker(row, search_type, search_value))
         /\ cur' = Len(ws) + 1
         /\ IF row = 0
            THEN /\ table' = clear_statuses(table)
                 /\ consoleWriter' = "fg"
            ELSE IF row \in 1..Len(table)
            THEN /\ table' = [table EXCEPT ![row].status = ""]
                 /\ UNCHANGED consoleWriter
            ELSE UNCHANGED <<table, consoleWriter>>     \* AttributeError, line 294

\* SearchTab.start_search, lines 272-274 and on: a running worker is stopped
\* and waited for first
start_search(search_type, search_value, row) ==
    IF cur # 0 /\ isRunning(cur)
    THEN /\ workers' = stop(workers, cur)
         /\ fg' = [pc |-> "wait_start", search_type |-> search_type,
                   search_value |-> search_value, row |-> row]
         /\ buttons' = disable_all_buttons_except_cancel
         /\ UNCHANGED <<table, consoleWriter, cur>>
    ELSE /\ start_search_body(workers, search_type, search_value, row)
         /\ buttons' = disable_all_buttons_except_cancel
         /\ UNCHANGED fg

\* currentRow() as an index: the current row, or -1 when there is none
\* (row 0 here)
CurrentIndex(row) == IF row = 0 THEN -1 ELSE row

\* SearchTab.search_again: "Search ISBN" or "Search Title & Author" of the
\* context menu, on the current row; row is 0 when no row is current (the
\* menu opened on the empty part of the table, or on an empty table)
search_again(row, search_type, isbnText, titleText, authorText) ==
    /\ UserAction /\ CanStartTask
    /\ row \in 0..Len(table)
    /\ IF search_type = "isbn"
       THEN IF Strip(isbnText) # <<>>
            THEN start_search("isbn", [isbn |-> Strip(isbnText)], CurrentIndex(row))
            ELSE /\ consoleWriter' = "fg"
                 /\ buttons' = reset_buttons
                 /\ UNCHANGED <<table, fg, workers, cur>>
       ELSE IF Strip(titleText) # <<>> /\ Strip(authorText) # <<>>
            THEN start_search("title_author",
                              [title |-> Strip(titleText),
                               author |-> Strip(authorText)], CurrentIndex(row))
            ELSE /\ consoleWriter' = "fg"
                 /\ buttons' = reset_buttons
                 /\ UNCHANGED <<table, fg, workers, cur>>
    /\ cancelInfo' = NoCancel
    /\ UNCHANGED <<libraries, saved, queue, nextId, pureVars>>

\* SearchTab.start_search resumed: the worker waited for has finished
start_search_resume ==
    /\ fg.pc = "wait_start" /\ ~isRunning(cur)
    /\ start_search_body(workers, fg.search_type, fg.search_value, fg.row)
    /\ fg' = Idle
    /\ UNCHANGED <<libraries, saved, buttons, queue, nextId, cancelInfo, ops, pureVars>>

\* SearchTab.cancel_search, lines 316-323: the rows showing "Searching..."
\* become "Canceled"
cancel_rows(t) ==
    [r \in 1..Len(t) |->
        IF t[r].status = "Searching..." THEN [t[r] EXCEPT !.status = "Canceled"]
        ELSE t[r]]

\* the rows a worker has not yet taken from libraries_to_process: the one
\* index of a retry until the loop has taken it, or the rows after the latest
\* one of a full search
NotStarted(w) ==
    IF w.pc \in {"done", "crashed", "exit"} THEN {}
    ELSE IF w.index # 0 THEN (IF w.pos = 1 THEN {w.index} ELSE {})
    ELSE {r \in 1..Len(table) : r > w.i}

\* SearchTab.cancel_search: the click on "Cancel"
cancel_search ==
    /\ UserAction /\ buttons.cancel /\ cur # 0
    /\ cancelInfo' = [valid |-> TRUE, running |-> isRunning(cur),
                      snap |-> [r \in 1..Len(table) |-> table[r].status],
                      notStarted |-> NotStarted(workers[cur])]
    /\ IF isRunning(cur)
       THEN /\ consoleWriter' = "fg"
            /\ workers' = stop(workers, cur)
            /\ fg' = [Idle EXCEPT !.pc = "wait_cancel"]
            /\ UNCHANGED <<table, buttons>>
       ELSE /\ table' = cancel_rows(table)
            /\ consoleWriter' = IF table' # table THEN "fg" ELSE consoleWriter
            /\ buttons' = reset_buttons
            /\ UNCHANGED <<workers, fg>>
    /\ UNCHANGED <<libraries, saved, cur, queue, nextId, pureVars>>

\* SearchTab.cancel_search resumed: the worker waited for has finished
cancel_search_resume ==
    /\ fg.pc = "wait_cancel" /\ ~isRunning(cur)
    /\ table' = cancel_rows(table)
    /\ consoleWriter' = IF table' # table THEN "fg" ELSE consoleWriter
    /\ buttons' = reset_buttons
    /\ fg' = Idle
    /\ UNCHANGED <<libraries, saved, workers, cur, queue, nextId, cancelInfo,
                   ops, pureVars>>

\* SearchTab.clear_statuses: the click on "Clear"
clear_clicked ==
    /\ UserAction /\ buttons.clear
    /\ table' = clear_statuses(table)
    /\ consoleWriter' = "fg"
    /\ cancelInfo' = NoCancel
    /\ UNCHANGED <<libraries, saved, buttons, fg, workers, cur, queue, nextId,
                   pureVars>>

\* a rule for the ISBN URL that does not look for {title}
IsbnUrlValidTitleAllowed(isbn_url) ==
    ~Contains(isbn_url, "{author}") /\ Contains(isbn_url, "{isbn}")

\* the placeholder rules of add_library and edit_library
IsbnUrlValid(isbn_url) ==
    /\ ~Contains(isbn_url, "{title}") /\ ~Contains(isbn_url, "{author}")
    /\ Contains(isbn_url, "{isbn}")

TitleAuthorUrlValid(title_author_url) ==
    /\ ~Contains(title_author_url, "{isbn}")
    /\ Contains(title_author_url, "{title}")
    /\ Contains(title_author_url, "{author}")

RemoveAt(seq, k) == SubSeq(seq, 1, k - 1) \o SubSeq(seq, k + 1, Len(seq))

\* SearchTab.add_library: the click on "Add Library".  An answer that fails a
\* placeholder rule is asked for again; the user then cancels the dialog.
add_library(name, isbn_url, title_author_url) ==
    /\ UserAction /\ buttons.add
    /\ Len(libraries) < MaxLibs /\ nextId <= MaxLibs + MaxAdds
    /\ IF Strip(name) # <<>> /\ IsbnUrlValid(isbn_url)
          /\ TitleAuthorUrlValid(title_author_url)
       THEN /\ libraries' = Append(libraries,
                                   [id |-> nextId, name |-> Strip(name),
                                    isbn_url |-> Strip(isbn_url),
                                    title_author_url |-> Strip(title_author_url)])
            /\ table' = populate_library_table(libraries')
            /\ saved' = Persist(libraries')
            /\ nextId' = nextId + 1
            /\ cancelInfo' = NoCancel
       ELSE UNCHANGED <<libraries, table, saved, nextId, cancelInfo>>
    /\ UNCHANGED <<consoleWriter, buttons, fg, workers, cur, queue, pureVars>>

\* the dict a worker holds is the dict of the list: an edit in place shows
SameDict(lib, edited) == IF lib.id = edited.id THEN edited ELSE lib

\* SearchTab.edit_library: "Edit Library" of the context menu.  urlsValid is
\* the answer of validators.url for the two URLs typed.
edit_library(row, name, isbn_url, title_author_url, urlsValid) ==
    /\ UserAction
    /\ row \in 1..Len(libraries)
    /\ IF Strip(name) = <<>>
       THEN /\ consoleWriter' = "fg"
            /\ UNCHANGED <<libraries, saved, workers>>
       ELSE IF ~IsbnUrlValid(isbn_url) \/ ~TitleAuthorUrlValid(title_author_url)
               \/ ~urlsValid
       THEN UNCHANGED <<libraries, saved, workers, consoleWriter>>
       ELSE LET edited == [id |-> libraries[row].id, name |-> name,
                           isbn_url |-> isbn_url,
                           title_author_url |-> title_author_url] IN
            /\ consoleWriter' = "fg"
            /\ IF edited # libraries[row]
               THEN /\ libraries' = [libraries EXCEPT ![row] = edited]
                    /\ workers' = [w \in 1..Len(workers) |->
                                      [workers[w] EXCEPT
                                          !.lib = SameDict(workers[w].lib, edited)]]
                    /\ saved' = Persist(libraries')
               ELSE UNCHANGED <<libraries, saved, workers>>
    /\ UNCHANGED <<table, buttons, fg, cur, queue, nextId, cancelInfo, pureVars>>

\* SearchTab.delete_library: "Delete library" of the context menu, answered Yes
delete_library(row) ==
    /\ UserAction
    /\ row \in 1..Len(libraries)
    /\ table' = RemoveAt(table, row)
    /\ libraries' = RemoveAt(libraries, row)
    /\ saved' = Persist(libraries')
    /\ cancelInfo' = NoCancel
    /\ UNCHANGED <<consoleWriter, buttons, fg, workers, cur, queue, nextId,
                   pureVars>>

\* The event loop delivers the oldest queued notification to its slot:
\* SearchTab.update_status or SearchTab.reset_buttons.  For a row the table no
\* longer has, item(row, 0) is None and the slot raises before changing anything.
deliver ==
    /\ fg.pc = "idle" /\ queue # <<>>
    /\ LET e == Head(queue) IN
       IF e.kind = "search_complete"
       THEN /\ buttons' = reset_buttons
            /\ UNCHANGED <<table, consoleWriter>>
       ELSE IF e.row \in 1..Len(table)
       THEN /\ table' = [table EXCEPT ![e.row].status = e.status]
            /\ consoleWriter' = "fg"
            /\ UNCHANGED buttons
       ELSE UNCHANGED <<table, consoleWriter, buttons>>
    /\ queue' = Tail(queue)
    /\ UNCHANGED <<libraries, saved, fg, workers, cur, nextId, cancelInfo, ops, pureVars>>

(***************************************************************************)
(* SearchWorker.run, one action per step between two points where the      *)
(* foreground may run: a read of the stop flag, an emitted notification,   *)
(* the HTTP request.                                                       *)
(***************************************************************************)
\* the workers once worker w has emitted the status updates and moved to pc
After(w, pc, events) ==
    [workers EXCEPT
        ![w].pc = pc,
        ![w].last = [row |-> events[Len(events)].row,
                     status |-> events[Len(events)].status]]

\* lines 584-587: the first read of the stop flag; a retry takes its library
\* out of the list here
run_start(w) ==
    /\ workers[w].pc = "start"
    /\ IF ~workers[w].is_running
       THEN workers' = [workers EXCEPT ![w] = Finished(@, "done")]
       ELSE IF workers[w].index = 0
       THEN workers' = [workers EXCEPT ![w].pc = "loop"]
       ELSE IF workers[w].index \in 1..Len(libraries)
       THEN workers' = [workers EXCEPT ![w].pc = "loop",
                                       ![w].lib = libraries[workers[w].index]]
       ELSE IF workers[w].index = -1 /\ libraries # <<>>       \* libraries[-1]
       THEN workers' = [workers EXCEPT ![w].pc = "loop",
                                       ![w].lib = libraries[Len(libraries)]]
       ELSE workers' = [workers EXCEPT ![w] = Finished(@, "crashed")] \* IndexError
    /\ UNCHANGED <<libraries, saved, table, consoleWriter, buttons, fg, cur,
                   queue, nextId, cancelInfo, ops, pureVars>>

\* a full search that walks the list from its last index to its first
libraries_to_process_reversed(w) ==
    IF w.index # 0 THEN <<w.index>>
    ELSE [k \in 1..Len(libraries) |-> Len(libraries) + 1 - k]

\* the indexes run will visit: the one of a retry, or every index of the list
libraries_to_process(w) ==
    IF w.index # 0 THEN <<w.index>> ELSE [k \in 1..Len(libraries) |-> k]

\* lines 589-591: the next (i, library) of libraries_to_process, if any, and
\* the read of the stop flag; enumerate() reads the list as it is now
run_next(w) ==
    /\ workers[w].pc = "loop"
    /\ LET me == workers[w]
           todo == libraries_to_process(me) IN
       IF me.pos > Len(todo)
       THEN workers' = [workers EXCEPT ![w].pc = "exit"]
       ELSE workers' = [workers EXCEPT
                ![w].pc = IF me.is_running THEN "construct" ELSE "exit",
                ![w].pos = me.pos + 1,
                ![w].i = todo[me.pos],
                ![w].lib = IF me.index # 0 THEN me.lib ELSE libraries[todo[me.pos]]]
    /\ UNCHANGED <<libraries, saved, table, consoleWriter, buttons, fg, cur,
                   queue, nextId, cancelInfo, ops, pureVars>>

\* lines 593-598: construct_url, then the "URL construction failed." error or
\* the "Searching..." update.  A missing query value makes construct_url call
\* log_error(self.index, ...), which writes to the console and emits for index
\* self.index: None in a full search, which emit() refuses.
run_construct(w) ==
    /\ workers[w].pc = "construct"
    /\ LET me == workers[w]
           c == construct_url(me, me.lib)
           failed == update_status(w, me.i, "Error", <<"URL construction failed.">>)
       IN
       IF c.kind = "raise" \/ (c.kind = "none" /\ me.index = 0)
       THEN /\ workers' = [workers EXCEPT ![w] = Finished(@, "crashed")]
            /\ consoleWriter' = IF c.kind = "none" THEN "worker" ELSE consoleWriter
            /\ UNCHANGED queue
       ELSE IF c.kind = "none"
       THEN LET logged == update_status(w, me.index, "Error", <<"empty field">>) IN
            /\ queue' = queue \o <<logged, failed>>
            /\ workers' = After(w, "loop", <<logged, failed>>)
            /\ consoleWriter' = "worker"
       ELSE IF c.url = NoUrl
       THEN /\ queue' = Append(queue, failed)
            /\ workers' = After(w, "loop", <<failed>>)
            /\ UNCHANGED consoleWriter
       ELSE LET searching == update_status(w, me.i, "Searching...", c.url) IN
            /\ queue' = Append(queue, searching)
            /\ workers' = [After(w, "precheck", <<searching>>) EXCEPT ![w].url = c.url]
            /\ UNCHANGED consoleWriter
    /\ UNCHANGED <<libraries, saved, table, buttons, fg, cur, nextId, cancelInfo,
                   ops, pureVars>>

\* lines 600-602: the stop flag is read once more before the request
run_precheck(w) ==
    /\ workers[w].pc = "precheck"
    /\ workers' = [workers EXCEPT
                      ![w].pc = IF workers[w].is_running THEN "request" ELSE "exit"]
    /\ UNCHANGED <<libraries, saved, table, consoleWriter, buttons, fg, cur,
                   queue, nextId, cancelInfo, ops, pureVars>>

\* the responses the search tab's model draws from: one per outcome
WireResponses(url) ==
    LET plain == [ok |-> TRUE, history |-> 0, url |-> url, page |-> BlankPage,
                  body |-> {}]
    IN {FailedResponse(url),
        plain,
        [plain EXCEPT !.history = 1, !.url = DetailUrl],
        [plain EXCEPT !.page.phrase = TRUE, !.page.meta = "3"]}

\* SearchWorker.log_error called from run: it appends to the console widget
\* when one was given (always), and emits an "Error" update carrying the message
log_error(w, index, message) == update_status(w, index, "Error", message)

\* lines 604-620: the request returns or raises, and the result is emitted
run_request(w, response) ==
    /\ workers[w].pc = "request"
    /\ LET me == workers[w] IN
       IF ~response.ok
       THEN LET events == <<log_error(w, me.i, <<"Request error">>),
                            update_status(w, me.i, "Error", me.url)>> IN
            /\ consoleWriter' = "worker"
            /\ queue' = queue \o events
            /\ workers' = After(w, "loop", events)
       ELSE LET c == classify(me.url, response)
                event == update_status(w, me.i, c.status, c.url) IN
            /\ queue' = Append(queue, event)
            /\ workers' = After(w, "loop", <<event>>)
            /\ UNCHANGED consoleWriter
    /\ UNCHANGED <<libraries, saved, table, buttons, fg, cur, nextId, cancelInfo,
                   ops, pureVars>>

\* lines 622-623: the flag is cleared and search_complete emitted
run_exit(w) ==
    /\ workers[w].pc = "exit"
    /\ workers' = [workers EXCEPT
                      ![w] = [Finished(@, "done") EXCEPT !.is_running = FALSE]]
    /\ queue' = Append(queue, search_complete(w))
    /\ UNCHANGED <<libraries, saved, table, consoleWriter, buttons, fg, cur,
                   nextId, cancelInfo, ops, pureVars>>

(***************************************************************************)
(* The scrape tab (src/scrape_tab.py) and clean_filename (src/utils.py).   *)
(*                                                                         *)
(* A working record is [exists, fields]: exists is FALSE for Python's None *)
(* and fields holds, in order, what the parsers passed to Field(...) and   *)
(* add_field: [tag, indicators, subfields, pos], pos being the place in    *)
(* the document of the candidate the field was built from (history).       *)
(* Indicators are a pair of texts, or <<>> for Python's None.              *)
(***************************************************************************)
NoRecord == [exists |-> FALSE, fields |-> <<>>]
Record == [exists |-> TRUE, fields |-> <<>>]            \* pymarc.Record()

Digits == {"0", "1", "2", "3", "4", "5", "6", "7", "8", "9"}

LowerLetters ==
    {"a", "b", "c", "d", "e", "f", "g", "h", "i", "j", "k", "l", "m", "n", "o",
     "p", "q", "r", "s", "t", "u", "v", "w", "x", "y", "z"}

UpperLetters ==
    {"A", "B", "C", "D", "E", "F", "G", "H", "I", "J", "K", "L", "M", "N", "O",
     "P", "Q", "R", "S", "T", "U", "V", "W", "X", "Y", "Z"}

\* the class [a-zA-Z0-9\s] of clean_filename; the only whitespace of the
\* model's texts is the space
KeptByCleanFilename == LowerLetters \cup UpperLetters \cup Digits \cup {" "}

\* the characters of s that are in the set keep, in order
RECURSIVE Filter(_, _)
Filter(s, keep) ==
    IF s = <<>> THEN <<>>
    ELSE IF Head(s) \in keep THEN <<Head(s)>> \o Filter(Tail(s), keep)
    ELSE Filter(Tail(s), keep)

\* str.replace(old, new) for one-character old and new
Replace(s, old, new) == [k \in 1..Len(s) |-> IF s[k] = old THEN new ELSE s[k]]

\* utils.clean_filename: re.sub(r'[^a-zA-Z0-9\s]', '', filename).strip()
\* .replace(' ', '_')
clean_filename(filename) ==
    Replace(Strip(Filter(filename, KeptByCleanFilename)), " ", "_")

UnknownAuthor == <<"U", "n", "k", "n", "o", "w", "n", "A", "u", "t", "h", "o", "r">>
Untitled == <<"U", "n", "t", "i", "t", "l", "e", "d">>

\* the value of the last subfield a of the fields tagged tag, stripped; the
\* loop of update_filename overwrites its variable at every match
RECURSIVE LastValue(_, _, _)
LastValue(subfields, code, found) ==
    IF subfields = <<>> THEN found
    ELSE LastValue(Tail(subfields), code,
                   IF Head(subfields).code = code THEN Strip(Head(subfields).value)
                   ELSE found)

RECURSIVE LastSubfieldA(_, _, _)
LastSubfieldA(fields, tag, found) ==
    IF fields = <<>> THEN found
    ELSE LastSubfieldA(Tail(fields), tag,
                       IF Head(fields).tag = tag
                       THEN LastValue(Head(fields).subfields, <<"a">>, found)
                       ELSE found)

\* ScrapeTab.update_filename: the new default filename, old when there is no
\* record
update_filename(record, old) ==
    IF ~record.exists THEN old
    ELSE LET title == LastSubfieldA(record.fields, <<"2", "4", "5">>, <<>>)
             author == LastSubfieldA(record.fields, <<"1", "0", "0">>, <<>>)
         IN clean_filename((IF author = <<>> THEN UnknownAuthor ELSE author)
                           \o <<"_">>
                           \o (IF title = <<>> THEN Untitled ELSE title))

(***************************************************************************)
(* The dialect parsers.  A page is abstracted by what the parsers look     *)
(* for: its candidate fields, in document order.  A candidate of an HTML   *)
(* dialect is [tagEl, tag, indEls, ind1, ind2, cells, subs, verdict]: the  *)
(* tag element (span.tag, th) is present or not and holds the text tag;    *)
(* the indicator elements are present or not and hold ind1 and ind2; cells *)
(* is the number of td cells of a table row; subs are the (code, value)    *)
(* texts of the subfield markers (span.sub_code, strong) and the strings   *)
(* that follow them.  A candidate of the line dialect is [line, verdict].  *)
(* verdict is what pymarc's Field(...) does when given the field built     *)
(* from the candidate: "ok", or the name of the exception it raises.       *)
(***************************************************************************)
ControlTags == {<<"0", "0", "1">>, <<"0", "0", "3">>, <<"0", "0", "5">>,
                <<"0", "0", "8">>}

\* the exceptions the HTML parsers catch and log for one field
CaughtErrors == {"ValueError", "TypeError", "KeyError"}

\* str.isdigit(); "^2" stands for the character SUPERSCRIPT TWO, which isdigit
\* accepts and int() refuses
IsDigit(text) == text # <<>> /\ \A k \in 1..Len(text) : text[k] \in Digits \cup {"^2"}

IntRaises(text) == \E k \in 1..Len(text) : text[k] \notin Digits

DigitValue(c) == CHOOSE n \in 0..9 : <<"0", "1", "2", "3", "4", "5", "6", "7", "8", "9">>[n + 1] = c

\* int(text) for a text of decimal digits
RECURSIVE IntOf(_)
IntOf(text) ==
    IF text = <<>> THEN 0
    ELSE 10 * IntOf(SubSeq(text, 1, Len(text) - 1)) + DigitValue(text[Len(text)])

\* str.replace(ch, '')
Remove(text, ch) == Filter(text, Range(text) \ {ch})

StartsWith(text, prefix) ==
    Len(text) >= Len(prefix) /\ SubSeq(text, 1, Len(prefix)) = prefix

\* str.split(sep) for a one-character sep
RECURSIVE Split(_, _, _)
Split(text, sep, part) ==
    IF text = <<>> THEN <<part>>
    ELSE IF Head(text) = sep THEN <<part>> \o Split(Tail(text), sep, <<>>)
    ELSE Split(Tail(text), sep, Append(part, Head(text)))

Subfield(code, value) == [code |-> code, value |-> value]

\* Field(tag, indicators, subfields=...) as the parser builds it
Field(tag, indicators, subfields, pos) ==
    [tag |-> tag, indicators |-> indicators, subfields |-> subfields, pos |-> pos]

NoField == Field(<<>>, <<>>, <<>>, 0)

\* what the handling of one candidate does: nothing, add_field, or raise
Skip == [kind |-> "skip", field |-> NoField, error |-> "none"]
Add(field) == [kind |-> "add", field |-> field, error |-> "none"]
Raise(error) == [kind |-> "raise", field |-> NoField, error |-> error]

\* the if that guards every add_field: a field is built only from a non-empty
\* list of subfields
HasSubfieldsAlways(subfields) == TRUE

HasSubfields(subfields) == subfields # <<>>

\* the try/except around add_field of the HTML parsers: the three caught
\* exceptions are logged and the field skipped, any other is raised again
TryAddField(field, verdict) ==
    IF verdict = "ok" THEN Add(field)
    ELSE IF verdict \in CaughtErrors THEN Skip
    ELSE Raise(verdict)

\* the for loop of a parser over the outcomes of its candidates: an exception
\* leaves the loop and the parser; at is the place of the candidate that raised
RECURSIVE RunSteps(_, _, _)
RunSteps(steps, k, fields) ==
    IF k > Len(steps) THEN [fields |-> fields, raised |-> "none", at |-> 0]
    ELSE IF steps[k].kind = "raise"
    THEN [fields |-> fields, raised |-> steps[k].error, at |-> k]
    ELSE RunSteps(steps, k + 1,
                  IF steps[k].kind = "add" THEN Append(fields, steps[k].field)
                  ELSE fields)

\* parse_format_one, lines 158-193: one div.field
format_one_step(c, pos) ==
    IF ~c.tagEl THEN Skip
    ELSE LET tag == Strip(c.tag)
             ind1 == IF c.indEls THEN Strip(c.ind1) ELSE <<" ">>
             ind2 == IF c.indEls THEN Strip(c.ind2) ELSE <<" ">>
             indicators == IF tag \in ControlTags THEN <<>> ELSE <<ind1, ind2>>
             subfield_objs ==
                 [k \in 1..Len(c.subs) |->
                     Subfield(Remove(Strip(c.subs[k].code), "|"),
                              Strip(c.subs[k].value))]
         IN IF HasSubfields(subfield_objs)
            THEN TryAddField(Field(tag, indicators, subfield_objs, pos), c.verdict)
            ELSE Skip

\* the subfields parse_format_four keeps: those with a code and a value
RECURSIVE format_four_subfields(_)
format_four_subfields(subs) ==
    IF subs = <<>> THEN <<>>
    ELSE LET code == Remove(Strip(Head(subs).code), "|")
             value == Strip(Head(subs).value)
         IN (IF code # <<>> /\ value # <<>> THEN <<Subfield(code, value)>> ELSE <<>>)
            \o format_four_subfields(Tail(subs))

\* parse_format_four, lines 281-329: one tr of the citation table
format_four_step(c, pos) ==
    IF ~c.tagEl THEN Skip
    ELSE LET tag == Strip(c.tag) IN
         IF ~IsDigit(tag) THEN Skip
         ELSE IF c.cells < 3 THEN Skip
         ELSE LET ind1 == IF Strip(c.ind1) # <<>> THEN Strip(c.ind1) ELSE <<" ">>
                  ind2 == IF Strip(c.ind2) # <<>> THEN Strip(c.ind2) ELSE <<" ">>
                  subfields == format_four_subfields(c.subs)
              IN IF HasSubfields(subfields)
                 THEN TryAddField(Field(tag, <<ind1, ind2>>, subfields, pos), c.verdict)
                 ELSE Skip

\* discard_subfields of parse_plain_marc
DiscardTags == {<<"1", "0", "0">>, <<"6", "0", "0">>, <<"6", "5", "0">>,
                <<"7", "0", "0">>, <<"8", "3", "0">>}

\* the subfields parse_plain_marc keeps: code "_x" gives x, and $9 of the
\* tags of discard_subfields is dropped
RECURSIVE plain_subfields(_, _)
plain_subfields(current_tag, subs) ==
    IF subs = <<>> THEN <<>>
    ELSE LET code == Strip(Head(subs).code)
             value == Strip(Head(subs).value)
         IN (IF StartsWith(code, <<"_">>) /\ Len(code) > 1
                /\ ~(current_tag \in DiscardTags /\ code[2] = "9")
             THEN <<Subfield(<<code[2]>>, value)>> ELSE <<>>)
            \o plain_subfields(current_tag, Tail(subs))

\* parse_plain_marc, lines 361-421: one tr of the plain view's table
plain_step(c, pos) ==
    IF ~c.tagEl THEN Skip
    ELSE IF c.cells <= 2 THEN Skip
    ELSE LET current_tag == Strip(c.tag)
             ind1 == IF Strip(c.ind1) # <<>> THEN Strip(c.ind1) ELSE <<" ">>
             ind2 == IF Strip(c.ind2) # <<>> THEN Strip(c.ind2) ELSE <<" ">>
             subfields == plain_subfields(current_tag, c.subs)
         IN IF current_tag # <<>> /\ HasSubfields(subfields)
            THEN TryAddField(Field(current_tag, <<ind1, ind2>>, subfields, pos),
                             c.verdict)
            ELSE Skip

\* an indicator of parse_format_three that keeps the character it reads
indicator_as_read(line, offset) ==
    IF Len(line) > offset /\ line[offset + 1] # " " THEN line[offset + 1] ELSE "\\"

\* parse_format_three, lines 233-238: the indicator at offset 4 or 5 (0-based)
indicator(line, offset) ==
    LET ind == IF Len(line) > offset /\ line[offset + 1] # " "
               THEN line[offset + 1] ELSE "\\"
    IN IF ind = "#" THEN "\\" ELSE ind

\* the subfields of parse_format_three: the non-empty parts between "$"
RECURSIVE format_three_subfields(_)
format_three_subfields(parts) ==
    IF parts = <<>> THEN <<>>
    ELSE (IF Head(parts) # <<>>
          THEN <<Subfield(<<Head(parts)[1]>>, Strip(Tail(Head(parts))))>>
          ELSE <<>>)
         \o format_three_subfields(Tail(parts))

\* a tag test that discards nothing
discards_nothing(tag) == FALSE

\* parse_format_three, line 228: the tags 000 to 009 are discarded
discards(tag) == IsDigit(tag) /\ IntOf(tag) <= 9

\* parse_format_three, lines 221-262: one line.  Nothing catches what int()
\* or Field(...) raise.
format_three_step(c, pos) ==
    LET line == c.line
        tag == Strip(SubSeq(line, 1, IF Len(line) < 3 THEN Len(line) ELSE 3))
        subfield_data == Strip(SubSeq(line, 8, Len(line)))
        subfields == IF subfield_data = <<>> THEN <<>>
                     ELSE format_three_subfields(Split(subfield_data, "$", <<>>))
    IN IF Strip(line) = <<>> \/ StartsWith(line, <<"l", "e", "a", "d", "e", "r">>)
       THEN Skip
       ELSE IF IsDigit(tag) /\ IntRaises(tag) THEN Raise("ValueError")
       ELSE IF discards(tag) THEN Skip
       ELSE IF HasSubfields(subfields)
       THEN IF c.verdict = "ok"
            THEN Add(Field(tag, <<<<indicator(line, 4)>>, <<indicator(line, 5)>>>>,
                           subfields, pos))
            ELSE Raise(c.verdict)
       ELSE Skip

\* what a parser leaves: the record, the exception that left it (and the
\* place of the candidate that raised it, 0 when none did), whether
\* update_filename ran, the message box shown, the parsers that ran
ParseResult(record, raised, at, updated, error, invoked) ==
    [record |-> record, raised |-> raised, at |-> at, updated |-> updated,
     error |-> error, invoked |-> invoked]

\* ScrapeTab.parse_format_one: no call of update_filename
parse_format_one(cands) ==
    LET r == RunSteps([k \in 1..Len(cands) |-> format_one_step(cands[k], k)], 1, <<>>)
    IN ParseResult([Record EXCEPT !.fields = r.fields], r.raised, r.at, FALSE,
                   "none", {"parse_format_one"})

\* ScrapeTab.parse_format_four: no call of update_filename
parse_format_four(cands) ==
    LET r == RunSteps([k \in 1..Len(cands) |-> format_four_step(cands[k], k)], 1, <<>>)
    IN ParseResult([Record EXCEPT !.fields = r.fields], r.raised, r.at, FALSE,
                   "none", {"parse_format_four"})

\* ScrapeTab.parse_plain_marc: update_filename is its last statement
parse_plain_marc(hasTable, cands) ==
    IF ~hasTable
    THEN ParseResult(Record, "none", 0, FALSE, "none", {"parse_plain_marc"})
    ELSE LET r == RunSteps([k \in 1..Len(cands) |-> plain_step(cands[k], k)], 1, <<>>)
         IN ParseResult([Record EXCEPT !.fields = r.fields], r.raised, r.at,
                        r.raised = "none", "none", {"parse_plain_marc"})

\* ScrapeTab.parse_format_two: the "view plain" link is followed; link is
\* "none" when the page has no such link, "fail" when its request raises,
\* "notable" when the plain view holds no table
parse_format_two(old, link, cands) ==
    IF link = "none"
    THEN ParseResult(old, "none", 0, FALSE, "Parsing Error", {"parse_format_two"})
    ELSE IF link = "fail"
    THEN ParseResult(old, "none", 0, FALSE, "Fetch Error", {"parse_format_two"})
    ELSE LET r == parse_plain_marc(link # "notable", cands)
         IN [r EXCEPT !.invoked = {"parse_format_two", "parse_plain_marc"}]

\* ScrapeTab.parse_format_three on the text of an API response:
\* update_filename is its last statement
parse_format_three(lines) ==
    LET r == RunSteps([k \in 1..Len(lines) |-> format_three_step(lines[k], k)], 1, <<>>)
    IN ParseResult([Record EXCEPT !.fields = r.fields], r.raised, r.at,
                   r.raised = "none", "none", {"parse_format_three"})

\* ScrapeTab.parse_format_three as parse_html calls it, on the BeautifulSoup
\* object: soup.splitlines is soup.find("splitlines"), and calling what find
\* returns raises TypeError once marc_record has been replaced
parse_format_three_soup ==
    ParseResult(Record, "TypeError", 0, FALSE, "none", {"parse_format_three"})

Markers == {"div.field", "table#marc", "pre ltr", "table.citation"}

\* a format test that looks for the citation table first
format_detected_table_first(markers) ==
    IF "table.citation" \in markers THEN "format_four"
    ELSE IF "div.field" \in markers THEN "format_one"
    ELSE IF "table#marc" \in markers THEN "format_two"
    ELSE IF "pre ltr" \in markers THEN "format_three"
    ELSE "none"

\* ScrapeTab.parse_html, lines 134-141
format_detected(markers) ==
    IF "div.field" \in markers THEN "format_one"
    ELSE IF "table#marc" \in markers THEN "format_two"
    ELSE IF "pre ltr" \in markers THEN "format_three"
    ELSE IF "table.citation" \in markers THEN "format_four"
    ELSE "none"

\* a dispatch that hands an unrecognised page to parse_format_four
parse_html_lenient(old, page) ==
    LET f == format_detected(page.markers) IN
    IF f = "format_one" THEN parse_format_one(page.cands)
    ELSE IF f = "format_two" THEN parse_format_two(old, page.link, page.cands)
    ELSE IF f = "format_three" THEN parse_format_three_soup
    ELSE parse_format_four(page.cands)

\* ScrapeTab.parse_html
parse_html(old, page) ==
    LET f == format_detected(page.markers) IN
    IF f = "format_one" THEN parse_format_one(page.cands)
    ELSE IF f = "format_two" THEN parse_format_two(old, page.link, page.cands)
    ELSE IF f = "format_three" THEN parse_format_three_soup
    ELSE IF f = "format_four" THEN parse_format_four(page.cands)
    ELSE ParseResult(old, "none", 0, FALSE, "Format Error", {})

\* ScrapeTab.fetch_marc_data
fetch_marc_data(old, doc) ==
    IF ~doc.params
    THEN ParseResult(old, "none", 0, FALSE, "URL Error", {})
    ELSE IF doc.fetch = "fail"
    THEN ParseResult(old, "none", 0, FALSE, "API Error", {})
    ELSE parse_format_three(doc.lines)

\* ScrapeTab.scrape_url, lines 78-100: what the click does for a document
scrape_result(old, doc) ==
    IF doc.url = "" THEN ParseResult(old, "none", 0, FALSE, "Input Error", {})
    ELSE IF doc.url \in {"primo", "discovery"} THEN fetch_marc_data(old, doc)
    ELSE IF doc.fetch = "fail"
    THEN ParseResult(old, "none", 0, FALSE, "Scraping Error", {})
    ELSE parse_html(old, doc)

(***************************************************************************)
(* The documents the scrape tab's model draws from.                        *)
(***************************************************************************)
MobyDick == <<"M", "o", "b", "y", " ", "D", "i", "c", "k">>
MelvilleHerman == <<"M", "e", "l", "v", "i", "l", "l", "e", ",", " ", "H", "e", "r", "m", "a", "n">>

Cand(tagEl, tag, indEls, ind1, ind2, cells, subs, verdict) ==
    [tagEl |-> tagEl, tag |-> tag, indEls |-> indEls, ind1 |-> ind1,
     ind2 |-> ind2, cells |-> cells, subs |-> subs, verdict |-> verdict]

CTitle == Cand(TRUE, <<"2", "4", "5">>, TRUE, <<"1">>, <<"0">>, 3,
               <<Subfield(<<"_", "a">>, MobyDick)>>, "ok")
CAuthor == Cand(TRUE, <<"1", "0", "0">>, TRUE, <<"1">>, <<" ">>, 3,
                <<Subfield(<<"_", "a">>, MelvilleHerman),
                  Subfield(<<"_", "9">>, <<"1">>)>>, "ok")
CControl == Cand(TRUE, <<"0", "0", "1">>, FALSE, <<>>, <<>>, 3,
                 <<Subfield(<<"|", "a">>, <<"x">>)>>, "ok")
CNoSubs == Cand(TRUE, <<"6", "5", "0">>, TRUE, <<>>, <<"0">>, 3, <<>>, "ok")
CEmptyValue == Cand(TRUE, <<"6", "5", "0">>, TRUE, <<>>, <<"0">>, 3,
                    <<Subfield(<<"|", "a">>, <<" ">>)>>, "ok")
CLeader == Cand(TRUE, <<"L", "D", "R">>, FALSE, <<>>, <<>>, 3,
                <<Subfield(<<"|", "a">>, <<"x">>)>>, "ok")
CNoTag == Cand(FALSE, <<>>, FALSE, <<>>, <<>>, 2, <<>>, "ok")

\* a page showing a leader row, a row without tag, and a title
MixedPage == <<CLeader, CNoTag, CTitle>>
CRejected == Cand(TRUE, <<"7", "0", "0">>, TRUE, <<"1">>, <<" ">>, 3,
                  <<Subfield(<<"_", "a">>, <<"x">>)>>, "ValueError")
CBroken == Cand(TRUE, <<"7", "0", "0">>, TRUE, <<"1">>, <<" ">>, 3,
                <<Subfield(<<"_", "a">>, <<"x">>)>>, "RuntimeError")

Cands == {CTitle, CAuthor, CControl, CNoSubs, CEmptyValue, CRejected, CBroken}

Line(line, verdict) == [line |-> line, verdict |-> verdict]

LTitle == Line(<<"2", "4", "5", " ", "1", "0", " ", "$", "a">> \o MobyDick, "ok")
LAuthor == Line(<<"1", "0", "0", " ", "1", "#", " ", "$", "a">> \o MelvilleHerman, "ok")
LOmoo == Line(<<"2", "4", "5", " ", "1", "0", " ", "$", "a", "O", "m", "o", "o">>, "ok")
LControl == Line(<<"0", "0", "5", " ", "#", "#", " ", "$", "a", "x">>, "ok")
LShort == Line(<<"6", "5", "0">>, "ok")
LLeader == Line(<<"l", "e", "a", "d", "e", "r", " ", "0">>, "ok")
LBlank == Line(<<" ">>, "ok")
LSuperscript == Line(<<"^2", " ", " ", " ", "#", "#", " ", "$", "a", "x">>, "ok")
LRejected == Line(<<"7", "0", "0", " ", "#", "#", " ", "$", "a", "x">>, "ValueError")

Lines == {LTitle, LAuthor, LControl, LShort, LLeader, LBlank, LSuperscript,
          LRejected}

\* the sequences of at most MaxFields elements of S
Seqs(S) == UNION {[1..n -> S] : n \in 0..MaxFields}

Doc(url, params, fetch, markers, cands, link, lines) ==
    [url |-> url, params |-> params, fetch |-> fetch, markers |-> markers,
     cands |-> cands, link |-> link, lines |-> lines]

NoDoc == Doc("", TRUE, "ok", {}, <<>>, "ok", <<>>)

\* what the URL field may name: nothing; a page, fetched or not, showing one
\* marker and any candidates (at least one when the marker is a div.field,
\* which is itself a candidate; none for a pre, which holds lines of text),
\* or any markers and the candidates of MixedPage; a page showing a pre with
\* one or two lines; a record of the API with two titles;
\* a record of the Primo or discovery API, with or without its parameters,
\* fetched or not
Docs ==
    {NoDoc, Doc("other", TRUE, "fail", {}, <<>>, "ok", <<>>)}
    \cup {doc \in {Doc("other", TRUE, "ok", {marker}, cands, "ok", <<>>) :
                        marker \in Markers, cands \in Seqs(Cands)} :
             /\ "div.field" \in doc.markers => doc.cands # <<>>
             /\ "pre ltr" \in doc.markers => doc.cands = <<>>}
    \cup {Doc("other", TRUE, "ok", markers, MixedPage, "ok", <<>>) :
             markers \in SUBSET Markers}
    \cup {Doc("other", TRUE, "ok", {"table#marc"}, <<>>, link, <<>>) :
             link \in {"none", "fail", "notable"}}
    \cup {Doc(url, params, fetch, {}, <<>>, "ok", <<>>) :
             url \in {"primo", "discovery"}, params \in BOOLEAN,
             fetch \in {"ok", "fail"}}
    \cup {Doc("primo", TRUE, "ok", {}, <<>>, "ok", lines) : lines \in Seqs(Lines)}
    \cup {Doc("other", TRUE, "ok", {"pre ltr"}, <<>>, "ok", lines) :
             lines \in {<<LTitle>>, <<LLeader, LTitle>>}}
    \cup {Doc("primo", TRUE, "ok", {}, <<>>, "ok", lines) :
             lines \in {<<LTitle, LOmoo>>, <<LOmoo, LTitle>>}}

\* the latest operation: its document and what it did
Scraped(op, doc, r) ==
    [op |-> op, doc |-> doc, format |-> format_detected(doc.markers),
     invoked |-> r.invoked, raised |-> r.raised, at |-> r.at,
     updated |-> r.updated, error |-> r.error]

NoScrape ==
    Scraped("none", NoDoc, ParseResult(NoRecord, "none", 0, FALSE, "none", {}))

\* ScrapeTab.scrape_url: the click on "Scrape URL"
scrape_url(doc) ==
    LET r == scrape_result(marc_record, doc) IN
    /\ marc_record' = r.record
    /\ default_filename' = IF r.updated THEN update_filename(r.record, default_filename)
                           ELSE default_filename
    /\ scrape' = Scraped("scrape", doc, r)
    /\ UNCHANGED <<searchVars, call, result>>

\* ScrapeTab.clear_fields: the click on "Clear"
clear_fields ==
    /\ marc_record' = NoRecord
    /\ default_filename' = <<>>
    /\ scrape' = [NoScrape EXCEPT !.op = "clear"]
    /\ UNCHANGED <<searchVars, call, result>>

(***************************************************************************)
(* The search tab's specification.                                         *)
(***************************************************************************)
\* the libraries a list file may hold; the identity of a dict is its place
FileLibrary(k, isbn_url) ==
    [id |-> k, name |-> <<"A">>, isbn_url |-> isbn_url, title_author_url |-> TaOk]

FileLists ==
    {urls \in [1..MaxLibs -> {IsbnOk, NoTemplate}] :
        \A k \in 1..MaxLibs : urls[k] = NoTemplate <=> k = MaxLibs}

NoCall == [fn |-> "none"]

Init ==
    /\ \E urls \in FileLists :
          libraries = [k \in 1..Len(urls) |-> FileLibrary(k, urls[k])]
    /\ saved = Persist(libraries)
    /\ table = populate_library_table(libraries)
    /\ consoleWriter = "fg"
    /\ buttons = reset_buttons
    /\ fg = Idle
    /\ workers = <<>>
    /\ cur = 0
    /\ queue = <<>>
    /\ nextId = MaxLibs + 1
    /\ cancelInfo = NoCancel
    /\ ops = 0
    /\ call = NoCall
    /\ result = NoCall
    /\ marc_record = NoRecord
    /\ default_filename = <<>>
    /\ scrape = NoScrape

Worker(w) ==
    \/ run_start(w)
    \/ run_next(w)
    \/ run_construct(w)
    \/ run_precheck(w)
    \/ \E response \in WireResponses(workers[w].url) : run_request(w, response)
    \/ run_exit(w)

Foreground ==
    \/ \E text \in TextInputs : start_isbn_search(text)
    \/ \E title \in TextInputs, author \in TextInputs :
          start_title_author_search(title, author)
    \/ \E row \in 0..Len(table), search_type \in {"isbn", "title_author"},
          text \in TextInputs :
          search_again(row, search_type, text, text, text)
    \/ start_search_resume
    \/ cancel_search
    \/ cancel_search_resume
    \/ clear_clicked
    \/ \E name \in Names, isbn_url \in IsbnTemplates, title_author_url \in TaTemplates :
          add_library(name, isbn_url, title_author_url)
    \/ \E row \in 1..Len(libraries), name \in Names, isbn_url \in IsbnTemplates,
          title_author_url \in TaTemplates, urlsValid \in BOOLEAN :
          edit_library(row, name, isbn_url, title_author_url, urlsValid)
    \/ \E row \in 1..Len(libraries) : delete_library(row)
    \/ deliver

Next == Foreground \/ \E w \in 1..Len(workers) : Worker(w)

Spec == Init /\ [][Next]_vars

(***************************************************************************)
(* The response classifier on its own: a response is drawn, and classified *)
(* as SearchWorker.run classifies it.                                      *)
(***************************************************************************)
RequestedUrl == <<"http://a/?q=", "9">>

InitClassify ==
    /\ libraries = <<>> /\ saved = <<>> /\ table = <<>>
    /\ consoleWriter = "fg" /\ buttons = reset_buttons /\ fg = Idle
    /\ workers = <<>> /\ cur = 0 /\ queue = <<>> /\ nextId = MaxLibs + 1
    /\ cancelInfo = NoCancel /\ ops = 0
    /\ \E h \in 0..1, page \in Pages, body \in SmallSubsets(BodyTexts) :
          call = [fn |-> "classify", url |-> RequestedUrl,
                  response |-> Response(RequestedUrl, h, page, body)]
    /\ result = NoCall
    /\ marc_record = NoRecord /\ default_filename = <<>> /\ scrape = NoScrape

Classify ==
    /\ call.fn = "classify" /\ result = NoCall
    /\ result' = [fn |-> "classify",
                  out |-> classify(call.url, call.response)]
    /\ UNCHANGED <<searchVars, call, scrapeVars>>

SpecClassify == InitClassify /\ [][Classify]_vars

(***************************************************************************)
(* The scrape tab's specification.                                         *)
(***************************************************************************)
InitScrape ==
    /\ libraries = <<>> /\ saved = <<>> /\ table = <<>>
    /\ consoleWriter = "fg" /\ buttons = reset_buttons /\ fg = Idle
    /\ workers = <<>> /\ cur = 0 /\ queue = <<>> /\ nextId = MaxLibs + 1
    /\ cancelInfo = NoCancel /\ ops = 0
    /\ call = NoCall /\ result = NoCall
    /\ marc_record = NoRecord /\ default_filename = <<>> /\ scrape = NoScrape

NextScrape ==
    \/ \E doc \in Docs : scrape_url(doc)
    \/ clear_fields

SpecScrape == InitScrape /\ [][NextScrape]_vars

(***************************************************************************)
(* The library list on its own: a list file that is empty or holds valid   *)
(* libraries, and the three operations that change the list.               *)
(***************************************************************************)
IsbnWithAuthor == <<"http://a/?q=", "{isbn}", "{author}">>
IsbnOther == <<"http://b/?q=", "{isbn}">>
TaWithIsbn == <<"http://a/?t=", "{title}", "&a=", "{author}", "{isbn}">>
TaNoTitle == <<"http://a/?a=", "{author}">>
TaOther == <<"http://b/?t=", "{title}", "&a=", "{author}">>

\* what the user may type into the dialogs when the list is edited on its own
LibraryIsbnTemplates == IsbnTemplates \cup {IsbnWithAuthor, IsbnOther, NoTemplate}
LibraryTaTemplates == TaTemplates \cup {TaWithIsbn, TaNoTitle, TaOther, NoTemplate}

\* the list files whose libraries all follow the placeholder rules
ValidFileLists == UNION {[1..n -> {IsbnOk, IsbnOther}] : n \in 0..MaxLibs}

InitLibrary ==
    /\ \E urls \in ValidFileLists :
          libraries = [k \in 1..Len(urls) |-> FileLibrary(k, urls[k])]
    /\ saved = Persist(libraries)
    /\ table = populate_library_table(libraries)
    /\ consoleWriter = "fg" /\ buttons = reset_buttons /\ fg = Idle
    /\ workers = <<>> /\ cur = 0 /\ queue = <<>> /\ nextId = MaxLibs + 1
    /\ cancelInfo = NoCancel /\ ops = 0
    /\ call = NoCall /\ result = NoCall
    /\ marc_record = NoRecord /\ default_filename = <<>> /\ scrape = NoScrape

NextLibrary ==
    \/ \E name \in Names, isbn_url \in LibraryIsbnTemplates,
          title_author_url \in LibraryTaTemplates :
          add_library(name, isbn_url, title_author_url)
    \/ \E row \in 1..Len(libraries), name \in Names,
          isbn_url \in LibraryIsbnTemplates,
          title_author_url \in LibraryTaTemplates, urlsValid \in BOOLEAN :
          edit_library(row, name, isbn_url, title_author_url, urlsValid)
    \/ \E row \in 1..Len(libraries) : delete_library(row)

SpecLibrary == InitLibrary /\ [][NextLibrary]_vars

(***************************************************************************)
(* Properties of the search tab.                                           *)
(***************************************************************************)
Workers == 1..Len(workers)

\* the first notification a step adds to the queue, when it adds one
Emits == Len(queue') > Len(queue)
Emitted == queue'[Len(queue) + 1]

\* C1: at most one search worker runs at any time (every launch of a search
\* stops a running worker and waits for it before creating the next)
C1_OneWorker == Cardinality({w \in Workers : isRunning(w)}) <= 1

\* C2: when a status update of a task is queued, every task launched before
\* it has ended: the earlier worker has exited and emits nothing more
C2_PriorTaskEnded ==
    \A k \in 1..Len(queue) :
        queue[k].kind = "update_status"
            => \A w \in Workers : w < queue[k].w => ~isRunning(w)

\* C3: once a worker has been asked to stop, it emits Found, Not Found or Error
\* only for the endpoint it had announced with "Searching...": no endpoint goes
\* from pending straight to a terminal result
C3_NoResultAfterCancel ==
    [][(Emits /\ Emitted.kind = "update_status" /\ Emitted.status \in Terminal
          /\ workers[Emitted.w].stopRequested)
       => workers[Emitted.w].last = [row |-> Emitted.row, status |-> "Searching..."]]_vars

\* C4: after the cancel of a running worker has finished, every worker has
\* returned from run and every queued notification is delivered, each row that
\* showed "Searching..." when Cancel was clicked shows "Canceled", and each row
\* the worker had not started keeps the status it had
C4_CancelOutcome ==
    (cancelInfo.valid /\ cancelInfo.running /\ fg.pc = "idle" /\ queue = <<>>
        /\ \A w \in Workers : workers[w].pc = "done")
    => \A r \in 1..Len(table) :
          /\ cancelInfo.snap[r] = "Searching..." => table[r].status = "Canceled"
          /\ (r \in cancelInfo.notStarted /\ cancelInfo.snap[r] # "Searching...")
                => table[r].status = cancelInfo.snap[r]

\* C5: a full search emits its status updates in increasing index order, and
\* the first update for an endpoint comes only after the previous endpoint was
\* resolved (Found, Not Found, Error or the URL-construction skip)
C5_InOrder ==
    [][(Emits /\ Emitted.kind = "update_status" /\ workers[Emitted.w].index = 0)
       => LET last == workers[Emitted.w].last IN
          /\ Emitted.row >= last.row
          /\ Emitted.row > last.row => (last = NoEmit \/ last.status \in Terminal)]_vars

C5_Witness ==
    \E w \in Workers :
        /\ workers[w].index = 0 /\ workers[w].search_type = "title_author"
        /\ workers[w].last = [row |-> 2, status |-> "Found"]

\* C6: handling one endpoint, whether its URL construction or its request, never
\* ends the task: the worker goes on to the next endpoint of its loop (or, for a
\* URL that was built, to the request)
C6_FailureContinues ==
    [][\A w \in Workers :
          (workers[w].pc \in {"construct", "request"}
              /\ workers'[w].pc # workers[w].pc)
          => workers'[w].pc \in {"loop", "precheck"}]_vars

\* C7: a worker visits the endpoint list as it was when the task started, and
\* every queued status update names a row that exists and still shows the
\* endpoint the update was emitted for
C7_Snapshot ==
    /\ \A w \in Workers :
          workers[w].pc \in {"construct", "precheck", "request"}
          => /\ workers[w].i \in 1..Len(workers[w].snapshot)
             /\ workers[w].lib = workers[w].snapshot[workers[w].i]
    /\ \A k \in 1..Len(queue) :
          queue[k].kind = "update_status"
          => /\ queue[k].row \in 1..Len(libraries)
             /\ libraries[queue[k].row].id = queue[k].lib

\* C8: the worker never changes foreground-owned state: the console, like the
\* table, is written by the foreground thread only
C8_ForegroundOnly == consoleWriter = "fg"

\* the notifications a step adds to the queue, in order
NewEvents == SubSeq(queue', Len(queue) + 1, Len(queue'))

IsTerminal(e) == e.kind = "update_status" /\ e.status \in Terminal

\* C29: a worker emits at most one terminal status (Found, Not Found, Error)
\* for an endpoint it processes: a terminal status it emits for a row is
\* neither preceded by another terminal status emitted in the same step for
\* that row, nor by one that was its latest emission before the step
C29_OneTerminal ==
    [][Emits =>
          \A k \in 1..Len(NewEvents) :
              IsTerminal(NewEvents[k]) =>
                  /\ \A j \in 1..(k - 1) :
                        ~(/\ IsTerminal(NewEvents[j])
                          /\ NewEvents[j].w = NewEvents[k].w
                          /\ NewEvents[j].row = NewEvents[k].row)
                  /\ ~(/\ workers[NewEvents[k].w].last.row = NewEvents[k].row
                        /\ workers[NewEvents[k].w].last.status \in Terminal)]_vars

\* a step that creates the worker of a single-endpoint retry
LaunchesRetry ==
    /\ Len(workers') = Len(workers) + 1
    /\ workers'[Len(workers')].index # 0

\* a step that delivers a status update emitted by the worker of a retry
DeliversRetryUpdate ==
    /\ queue # <<>> /\ queue' = Tail(queue)
    /\ Head(queue).kind = "update_status"
    /\ workers[Head(queue).w].index # 0

\* every row but k shows after the step what it showed before
OnlyRowChanges(k) ==
    /\ Len(table') = Len(table)
    /\ \A r \in 1..Len(table) : r # k => table'[r] = table[r]

\* C28: a single-endpoint retry of row k clears the status of row k alone when
\* it is launched, its worker visits row k alone (every status it emits is for
\* row k, and row k is the one it requests), and the delivery of its updates
\* changes the status of row k alone: every other row is left as it was
C28_RetryFrame ==
    [][/\ LaunchesRetry =>
              /\ workers'[Len(workers')].index \in 1..Len(table)
                    => table'[workers'[Len(workers')].index].status = ""
              /\ OnlyRowChanges(workers'[Len(workers')].index)
       /\ Emits =>
              \A n \in 1..Len(NewEvents) :
                  (/\ NewEvents[n].kind = "update_status"
                   /\ workers[NewEvents[n].w].index # 0)
                  => NewEvents[n].row = workers[NewEvents[n].w].index
       /\ \A w \in Workers :
              (workers[w].index # 0 /\ workers[w].pc \in {"construct", "precheck", "request"})
              => /\ workers[w].i = workers[w].index
                 /\ libraries_to_process(workers[w]) = <<workers[w].index>>
       /\ DeliversRetryUpdate => OnlyRowChanges(workers[Head(queue).w].index)]_vars

\* a retry of row 1 that followed a full search has run to its end: row 1
\* shows what the retry found, row 2 what the full search had left
C28_Witness ==
    /\ Len(workers) = 2 /\ Len(table) = 2 /\ queue = <<>>
    /\ workers[1].index = 0 /\ workers[1].pc = "done"
    /\ workers[2].index = 1 /\ workers[2].pc = "done"
    /\ workers[2].last = [row |-> 1, status |-> "Found"]
    /\ table[1].status = "Found"
    /\ table[2].status = "Not Found"

\* the step delivers the completion notification of worker w
NotifiesCompletion(w) ==
    /\ queue # <<>> /\ queue' = Tail(queue)
    /\ Head(queue).kind = "search_complete" /\ Head(queue).w = w

\* the rows a task is about: the row of a retry, or every row
InScope(w) ==
    IF workers[w].index # 0 THEN {workers[w].index} \cap (1..Len(table))
    ELSE 1..Len(table)

\* C26: when the completion of a task that was never asked to stop is
\* notified, every row in its scope shows a terminal status (Found, Not Found
\* or Error): none is blank, and none shows "Searching..."
C26_AllTerminal ==
    [][\A w \in Workers :
          (NotifiesCompletion(w) /\ ~workers[w].stopRequested /\ w = cur)
          => \A r \in InScope(w) : table[r].status \in Terminal]_vars

\* C27: a task leaves the running state by emitting search_complete: the
\* step in which the thread of a worker ends, whether the task ran to its end
\* or was asked to stop, queues that worker's completion notification
C27_CompletionEmitted ==
    [][\A w \in Workers :
          (isRunning(w) /\ workers'[w].pc \in {"done", "crashed"})
          => (Emits /\ Emitted = search_complete(w))]_vars

(***************************************************************************)
(* Properties of the classifier.                                           *)
(***************************************************************************)
Classified == result # NoCall

NotFoundSignal(page) ==
    \/ page.phrase
    \/ page.h1 \in {"no results", "no results available"}
    \/ page.noresultsDiv
    \/ page.placeholderRow

FoundSignal(response) ==
    \/ response.history > 0
    \/ response.page.markers # {}
    \/ response.page.meta = "3"
    \/ response.page.stats = "3"
    \/ response.body \cap {"your search returned 3 results", "3 results found",
                           "1-3 of 3"} # {}

\* C9: a response whose page carries any not-found signal is classified
\* Not Found, whatever found signals the response also carries
C9_NotFoundWins ==
    (Classified /\ NotFoundSignal(call.response.page))
    => result.out.status = "Not Found"

C9_Witness ==
    /\ Classified
    /\ NotFoundSignal(call.response.page) /\ FoundSignal(call.response)
    /\ call.response.page.phrase /\ call.response.page.meta = "3"
    /\ result.out.status = "Not Found"

\* C10 as stated: a response reached through a redirect whose page holds no
\* not-found phrase is classified Found, with the final URL
C10_RedirectNoPhrase ==
    (Classified /\ call.response.history > 0 /\ ~call.response.page.phrase)
    => result.out = [status |-> "Found", url |-> call.response.url]

\* C10, amended: a response reached through a redirect whose page carries no
\* not-found signal at all (phrase, "no results" heading, noresults container,
\* placeholder row) is classified Found, with the final URL
C10_RedirectFound ==
    (Classified /\ call.response.history > 0
        /\ ~NotFoundSignal(call.response.page))
    => result.out = [status |-> "Found", url |-> call.response.url]

C10_Witness ==
    /\ Classified
    /\ call.response.history > 0 /\ call.response.page = BlankPage
    /\ call.response.body = {}
    /\ call.response.url # call.url
    /\ result.out = [status |-> "Found", url |-> DetailUrl]

\* a structural found signal: a marker element, or a positive count in the
\* totalResults meta element or the search-stats container
StructuralSignal(page) ==
    page.markers # {} \/ page.meta = "3" \/ page.stats = "3"

\* a textual found signal: the body holds a text for one of the four patterns
\* "your search returned N results", "Results: N", "N results found",
\* "A-B of N"
TextualSignal(body) ==
    body \cap {"your search returned 3 results", "Results: 3", "3 results found",
               "1-3 of 3"} # {}

\* C21: a response that raised nothing and whose page carries no not-found
\* signal is classified Found exactly when it was redirected, or its page
\* carries a structural found signal, or its body matches one of the four
\* textual patterns; it is classified Not Found otherwise, and Not Found goes
\* with the requested URL
C21_FoundIff ==
    (Classified /\ ~NotFoundSignal(call.response.page))
    => /\ result.out.status \in {"Found", "Not Found"}
       /\ result.out.status = "Found"
              <=> \/ call.response.history > 0
                  \/ StructuralSignal(call.response.page)
                  \/ TextualSignal(call.response.body)
       /\ result.out.status = "Not Found" => result.out.url = call.url

(***************************************************************************)
(* Properties of the scrape tab.                                           *)
(***************************************************************************)
\* the latest operation was a scrape whose page was fetched and handed to
\* parse_html
HtmlParsed ==
    scrape.op = "scrape" /\ scrape.doc.url = "other" /\ scrape.doc.fetch = "ok"

\* the latest operation was a scrape whose API text was fetched and handed to
\* parse_format_three
TextParsed ==
    /\ scrape.op = "scrape" /\ scrape.doc.url \in {"primo", "discovery"}
    /\ scrape.doc.params /\ scrape.doc.fetch = "ok"

\* the markers in the order of priority the classifier is to follow, and the
\* format each one stands for
MarkerPriority == <<"div.field", "table#marc", "pre ltr", "table.citation">>

MarkerFormat == <<"format_one", "format_two", "format_three", "format_four">>

FormatByPriority(markers) ==
    IF \E k \in 1..4 : MarkerPriority[k] \in markers
    THEN MarkerFormat[CHOOSE k \in 1..4 :
                          /\ MarkerPriority[k] \in markers
                          /\ \A j \in 1..(k - 1) : MarkerPriority[j] \notin markers]
    ELSE "none"

\* the parser of a format, and what that parser calls
FormatParser(format) == {"parse_" \o format} \ {"parse_none"}

FormatParsers(format) ==
    FormatParser(format)
    \cup (IF format = "format_two" THEN {"parse_plain_marc"} ELSE {})

\* C11: for every page handed to parse_html, the format chosen is the one of
\* the first marker present in the order div.field, table#marc, pre ltr,
\* citation table (none when no marker is present), the parser of that format
\* is invoked, and no parser of another format is
C11_PriorityOrder ==
    HtmlParsed =>
        /\ scrape.format = FormatByPriority(scrape.doc.markers)
        /\ FormatParser(FormatByPriority(scrape.doc.markers)) \subseteq scrape.invoked
        /\ scrape.invoked \subseteq FormatParsers(FormatByPriority(scrape.doc.markers))

\* a page showing the citation table and table#marc but no div.field was
\* parsed as format_two
C11_Witness ==
    /\ HtmlParsed
    /\ {"table#marc", "table.citation"} \subseteq scrape.doc.markers
    /\ "div.field" \notin scrape.doc.markers
    /\ scrape.format = "format_two"
    /\ scrape.invoked = {"parse_format_two", "parse_plain_marc"}
    /\ Len(marc_record.fields) = 1

\* C12: a scrape whose fetched page shows none of the four markers ends with
\* the message "Format Error", runs no parser, and leaves the working record
\* and the default filename as they were
C12_UnknownFormat ==
    [][(scrape'.op = "scrape" /\ scrape'.doc.url = "other"
          /\ scrape'.doc.fetch = "ok" /\ scrape'.doc.markers = {})
       => (/\ scrape'.error = "Format Error"
           /\ scrape'.invoked = {}
           /\ marc_record' = marc_record
           /\ default_filename' = default_filename)]_vars

\* a page without marker was scraped while a record with fields and a
\* filename were held, and both are still there
C12_Witness ==
    /\ HtmlParsed /\ scrape.doc.markers = {} /\ scrape.doc.cands # <<>>
    /\ scrape.error = "Format Error"
    /\ marc_record.exists /\ marc_record.fields # <<>>
    /\ default_filename # <<>>

\* the parsers that build fields
DialectParsers ==
    {"parse_format_one", "parse_plain_marc", "parse_format_three", "parse_format_four"}

DialectParsed == scrape.op = "scrape" /\ scrape.invoked \cap DialectParsers # {}

\* the candidates of the document of the latest scrape: the containers or rows
\* of a page, the lines of a text
Candidates == IF TextParsed THEN scrape.doc.lines ELSE scrape.doc.cands

\* the candidate holds a subfield marker: a marker element, or a "$" in a line
HasSubfieldMarker(c) ==
    IF TextParsed THEN "$" \in Range(c.line) ELSE c.subs # <<>>

\* C13: after a dialect parser ran, every field of the working record has at
\* least one subfield, the record holds at most as many fields as the document
\* has candidates, and no field was built from a candidate without a subfield
\* marker
C13_FieldsHaveSubfields ==
    DialectParsed =>
        /\ \A k \in 1..Len(marc_record.fields) :
              /\ marc_record.fields[k].subfields # <<>>
              /\ marc_record.fields[k].pos \in 1..Len(Candidates)
              /\ HasSubfieldMarker(Candidates[marc_record.fields[k].pos])
        /\ Len(marc_record.fields) <= Len(Candidates)

\* a page of two candidates, the first with a tag and no subfield marker, gave
\* a record holding the second only
C13_Witness ==
    /\ DialectParsed /\ HtmlParsed
    /\ Len(scrape.doc.cands) = 2
    /\ scrape.doc.cands[1] = CNoSubs
    /\ Len(marc_record.fields) = 1
    /\ marc_record.fields[1].pos = 2

\* parse_format_three ran on the text of an API response
LinesParsed == TextParsed /\ "parse_format_three" \in scrape.invoked

\* the tags "000" to "009"
LowTags == {<<"0", "0", d>> : d \in Digits}

\* C14: after parse_format_three ran on a text, no field of the working
\* record has a tag from "000" to "009"
C14_NoLowTags ==
    LinesParsed =>
        \A k \in 1..Len(marc_record.fields) : marc_record.fields[k].tag \notin LowTags

\* a text whose first line is tagged 005 and whose second line is the title
\* gave a record holding the title only
C14_Witness ==
    /\ LinesParsed
    /\ scrape.doc.lines = <<LControl, LTitle>>
    /\ Len(marc_record.fields) = 1
    /\ marc_record.fields[1].tag = <<"2", "4", "5">>

\* the placeholder of a blank indicator
Blank == "\\"

\* the indicator a line is to give for the offset (counted from 0)
ExpectedIndicator(line, offset) ==
    IF Len(line) <= offset THEN Blank
    ELSE IF line[offset + 1] \in {"#", " "} THEN Blank
    ELSE line[offset + 1]

\* C15: for every line of a text given to parse_format_three and both offsets
\* 4 and 5, the indicator read is the placeholder when the offset lies beyond
\* the end of the line or holds "#" or a space, and the character at the
\* offset otherwise; it is never "#"; and every field of the record carries
\* the two indicators of its line
C15_Indicators ==
    LinesParsed =>
        /\ \A k \in 1..Len(scrape.doc.lines), offset \in {4, 5} :
              /\ indicator(scrape.doc.lines[k].line, offset)
                     = ExpectedIndicator(scrape.doc.lines[k].line, offset)
              /\ indicator(scrape.doc.lines[k].line, offset) # "#"
        /\ \A k \in 1..Len(marc_record.fields) :
              LET line == scrape.doc.lines[marc_record.fields[k].pos].line
              IN marc_record.fields[k].indicators
                     = <<<<ExpectedIndicator(line, 4)>>, <<ExpectedIndicator(line, 5)>>>>

\* a line with a digit at offset 4 and "#" at offset 5 gave a field with the
\* digit and the placeholder, after a line that ends before offset 4
C15_Witness ==
    /\ LinesParsed
    /\ scrape.doc.lines = <<LShort, LAuthor>>
    /\ Len(marc_record.fields) = 1
    /\ marc_record.fields[1].indicators = <<<<"1">>, <<Blank>>>>

\* the latest scrape built a record and derived the default filename from it
Derived == scrape.op = "scrape" /\ scrape.updated /\ marc_record.exists

\* the 100$a and 245$a values of the working record, <<>> when it has none
RecordAuthor == LastSubfieldA(marc_record.fields, <<"1", "0", "0">>, <<>>)

RecordTitle == LastSubfieldA(marc_record.fields, <<"2", "4", "5">>, <<>>)

\* a name part with the characters other than letters, digits and spaces
\* removed and every space turned into an underscore
Sanitized(text) == Replace(Strip(Filter(text, KeptByCleanFilename)), " ", "_")

MelvilleHermanMobyDick ==
    <<"M", "e", "l", "v", "i", "l", "l", "e", "_", "H", "e", "r", "m", "a", "n", "_",
      "M", "o", "b", "y", "_", "D", "i", "c", "k">>

\* C16: a filename derived from a record with an author (100$a) and a title
\* (245$a) is the sanitized author, an underscore, the sanitized title; for
\* "Melville, Herman" and "Moby Dick" it is "Melville_Herman_Moby_Dick"
C16_AuthorUnderscoreTitle ==
    (Derived /\ RecordAuthor # <<>> /\ RecordTitle # <<>>)
    => /\ default_filename
              = Sanitized(RecordAuthor) \o <<"_">> \o Sanitized(RecordTitle)
       /\ (RecordAuthor = MelvilleHerman /\ RecordTitle = MobyDick)
              => default_filename = MelvilleHermanMobyDick

UnknownAuthorUntitled == UnknownAuthor \o <<"_">> \o Untitled

\* C17: a filename derived from a record without author and without title is
\* "UnknownAuthor_Untitled"; with the author alone missing it is
\* "UnknownAuthor", an underscore, the sanitized title, and with the title
\* alone missing the sanitized author, an underscore, "Untitled"
C17_DefaultNames ==
    Derived =>
        /\ (RecordAuthor = <<>> /\ RecordTitle = <<>>)
              => default_filename = UnknownAuthorUntitled
        /\ (RecordAuthor = <<>> /\ RecordTitle # <<>>)
              => default_filename
                     = UnknownAuthor \o <<"_">> \o Sanitized(RecordTitle)
        /\ (RecordAuthor # <<>> /\ RecordTitle = <<>>)
              => default_filename
                     = Sanitized(RecordAuthor) \o <<"_">> \o Untitled

\* a line that is to give a field: not blank, not the leader line, its tag
\* not from "000" to "009", and holding a subfield marker
IsFieldLine(line) ==
    /\ Strip(line) # <<>>
    /\ ~StartsWith(line, <<"l", "e", "a", "d", "e", "r">>)
    /\ SubSeq(line, 1, 3) \notin LowTags
    /\ "$" \in Range(line)

\* C22: a scrape of a fetched page whose format is format_three raises
\* nothing, runs parse_format_three to its end, and leaves a record with one
\* field for each line of the pre that is to give a field
C22_PreParsed ==
    (HtmlParsed /\ scrape.format = "format_three")
    => /\ scrape.raised = "none"
       /\ scrape.updated
       /\ marc_record.exists
       /\ Len(marc_record.fields)
              = Cardinality({k \in 1..Len(scrape.doc.lines) :
                                IsFieldLine(scrape.doc.lines[k].line)})

\* the tags of control fields
ControlFieldTags ==
    {<<"0", "0", "1">>, <<"0", "0", "3">>, <<"0", "0", "5">>, <<"0", "0", "8">>}

\* C23: after a dialect parser ran, every field of the record with a
\* control-field tag was built without indicators and without subfields
C23_ControlFieldsBare ==
    DialectParsed =>
        \A k \in 1..Len(marc_record.fields) :
            marc_record.fields[k].tag \in ControlFieldTags =>
                /\ marc_record.fields[k].indicators = <<>>
                /\ marc_record.fields[k].subfields = <<>>

\* C24: after a dialect parser ran, every field of the record whose tag is
\* not a control-field tag has two indicators, each of exactly one character
C24_IndicatorsOneCharacter ==
    DialectParsed =>
        \A k \in 1..Len(marc_record.fields) :
            marc_record.fields[k].tag \notin ControlFieldTags =>
                /\ Len(marc_record.fields[k].indicators) = 2
                /\ Len(marc_record.fields[k].indicators[1]) = 1
                /\ Len(marc_record.fields[k].indicators[2]) = 1

\* the stripped value of the first subfield a of the first field tagged tag,
\* <<>> when the record has no such field or that field no such subfield
FirstSubfieldA(fields, tag) ==
    LET tagged == {k \in 1..Len(fields) : fields[k].tag = tag} IN
    IF tagged = {} THEN <<>>
    ELSE LET first == fields[CHOOSE k \in tagged : \A j \in tagged : k <= j]
             as == {k \in 1..Len(first.subfields) : first.subfields[k].code = <<"a">>}
         IN IF as = {} THEN <<>>
            ELSE Strip(first.subfields[CHOOSE k \in as : \A j \in as : k <= j].value)

\* C25: the title in a derived default filename is the subfield a of the
\* first 245 field of the record: the filename is the one composed from the
\* author part and that title
C25_FirstTitle ==
    (Derived /\ FirstSubfieldA(marc_record.fields, <<"2", "4", "5">>) # <<>>)
    => default_filename
           = clean_filename((IF RecordAuthor = <<>> THEN UnknownAuthor
                             ELSE RecordAuthor)
                            \o <<"_">>
                            \o FirstSubfieldA(marc_record.fields, <<"2", "4", "5">>))

\* the record holds a field built from the candidate at place k
Added(k) ==
    \E j \in 1..Len(marc_record.fields) : marc_record.fields[j].pos = k

\* C19: when a dialect parser ran, no ValueError, TypeError or KeyError of one
\* candidate left the parser; a candidate whose field the MARC library
\* refuses gave no field; and, unless another kind of exception ended the
\* parse, every title candidate after a refused one gave a field
C19_FieldFailureSkipped ==
    DialectParsed =>
        /\ scrape.at > 0 => scrape.raised \notin CaughtErrors
        /\ \A k \in 1..Len(Candidates) :
              Candidates[k].verdict \in CaughtErrors =>
                  /\ ~Added(k)
                  /\ scrape.raised = "none" =>
                        \A j \in (k + 1)..Len(Candidates) :
                            Candidates[j] \in {CTitle, LTitle} => Added(j)

\* C20: whenever a working record exists after a scrape that raised nothing,
\* the default filename is the filename derived from that record
C20_FilenameOfRecord ==
    (marc_record.exists /\ scrape.raised = "none")
    => default_filename = update_filename(marc_record, <<>>)

\* C30: clean_filename is idempotent: the default filename, which is a result
\* of clean_filename, is left as it is by one more clean_filename
C30_Idempotent ==
    Derived => clean_filename(default_filename) = default_filename

(***************************************************************************)
(* Properties of the library list.                                         *)
(***************************************************************************)
\* the placeholder rules an endpoint is to follow
IsbnRule(template) ==
    /\ "{isbn}" \in Range(template)
    /\ "{title}" \notin Range(template) /\ "{author}" \notin Range(template)

TitleAuthorRule(template) ==
    /\ "{title}" \in Range(template) /\ "{author}" \in Range(template)
    /\ "{isbn}" \notin Range(template)

EndpointsFollowRules(list) ==
    \A k \in 1..Len(list) :
        IsbnRule(list[k].isbn_url) /\ TitleAuthorRule(list[k].title_author_url)

\* a step that is an add or an edit with an ISBN URL or a title/author URL
\* that breaks a rule
FailingAddOrEdit ==
    \E name \in Names, isbn_url \in LibraryIsbnTemplates,
       title_author_url \in LibraryTaTemplates :
        /\ ~(IsbnRule(isbn_url) /\ TitleAuthorRule(title_author_url))
        /\ \/ add_library(name, isbn_url, title_author_url)
           \/ \E row \in 1..Len(libraries), urlsValid \in BOOLEAN :
                 edit_library(row, name, isbn_url, title_author_url, urlsValid)

\* C18: from a list file that is empty or holds endpoints following the
\* placeholder rules, after any adds, edits and deletes every endpoint of the
\* list in memory and of the list file follows the rules, and an add or edit
\* with a URL that breaks a rule leaves both lists as they were
C18_EndpointsValid ==
    /\ [](EndpointsFollowRules(libraries) /\ EndpointsFollowRules(saved))
    /\ [][FailingAddOrEdit => UNCHANGED <<libraries, saved>>]_vars

\* after a delete, an add and an edit the list holds the edited second
\* library of the file and the added one, and the file holds the same
C18_Witness ==
    /\ ops = 3 /\ Len(libraries) = 2
    /\ libraries[1].id = 2 /\ libraries[1].title_author_url = TaOther
    /\ libraries[2].id = MaxLibs + 1 /\ libraries[2].isbn_url = IsbnOther
    /\ saved = Persist(libraries)

=============================================================================
